---- MODULE Spec2Model ----
(***************************************************************************)
(* annotations_line2d: draggable annotations bound to the data points of   *)
(* 2D lines.  The model covers DraggableAnnotationLine2D (the drag life    *)
(* cycle and the class-level drag lock), AnnotationPicker (controllers     *)
(* attached to lines, axes and figures) and the module functions that      *)
(* route the canvas' pick events to the closest controller.                *)
(*                                                                         *)
(* The plotting toolkit is the environment.  Its event loop delivers one   *)
(* mouse event at a time and calls the callbacks connected to the event's  *)
(* canvas one after the other, in the order they were connected; every     *)
(* callback is one action of the model, so the states between two          *)
(* callbacks of the same event are states of the model.                    *)
(***************************************************************************)
EXTENDS Integers, Sequences, FiniteSets, TLC

VARIABLES
    annot,       \* the DraggableAnnotationLine2D objects, by id
    _counter,    \* DraggableAnnotationLine2D._counter
    _drag_lock,  \* DraggableAnnotationLine2D._drag_lock: TRUE when held
    disp,        \* the event the toolkit is dispatching, and what is left of it
    stdout,      \* the lines the last call or callback printed
    error,       \* the exception that left the last call or callback, or "none"
    pickers,     \* the AnnotationPicker objects, by id
    attr,        \* artist -> the picker in its annotations_line2d attribute
    picker,      \* line -> its picker tolerance, NoInt when it is not pickable
    cb_canvas,   \* the canvases that carry the module's callbacks
    ret,         \* the value the last call of the API returned, NoReturn after a callback
    _event       \* the module global _event

dragvars == <<annot, _counter, _drag_lock>>
pickvars == <<pickers, attr, picker, cb_canvas, _event>>
vars == <<annot, _counter, _drag_lock, disp, stdout, error,
          pickers, attr, picker, cb_canvas, ret, _event>>

-----------------------------------------------------------------------------
(* Bounds of the model.                                                    *)

\* annotations made in one run of SpecPick
MaxAnn == 1
\* AnnotationPicker objects made in one run of SpecPick
MaxPickers == 2

-----------------------------------------------------------------------------
(* The artists of the run: two figures (one canvas each), one axes in each *)
(* and one line in each axes.                                              *)

None == "None"
\* no AnnotationPicker: the pickers are numbered from 1
NoPicker == 0
NoPair == <<>>
\* None where the code has a number (an index, a picker tolerance)
NoInt == 0 - 1
\* None where the code has a text
NoText == <<>>

Figures == {"fig1", "fig2"}
AxesSet == {"ax1", "ax2"}
Lines == {"line1", "line2"}
Artists == Lines \cup AxesSet \cup Figures

get_axes(line) == IF line = "line1" THEN "ax1" ELSE "ax2"

get_figure(artist) ==
    IF artist \in {"line1", "ax1", "fig1"} THEN "fig1" ELSE "fig2"

\* line.get_xydata(): line1 has ascending x data, line2 has not.
get_xydata(line) ==
    IF line = "line1" THEN << <<0, 0>>, <<1, 0>>, <<2, 0>> >>
                      ELSE << <<1, 0>>, <<0, 0>>, <<2, 0>> >>

\* xydata.shape[0]
NumPoints(line) == Len(get_xydata(line))

\* xydata[index, :] with the code's indices, which start at 0
DataPoint(line, index) == get_xydata(line)[index + 1]

IsSortedX(line) ==
    \A i \in 1..(NumPoints(line) - 1) :
        get_xydata(line)[i][1] <= get_xydata(line)[i + 1][1]

-----------------------------------------------------------------------------
(* Coordinates.  The axes' transData is affine: a data unit is PixPerUnit  *)
(* pixels.  Its inverse yields data coordinates that need not be whole     *)
(* numbers: the model keeps such a coordinate exactly, as the fraction     *)
(* [num, den].  An offset of the text box is in points, PtPerPix points to *)
(* the pixel.                                                              *)

PixPerUnit == 2
PtPerPix == 2

\* ref_artist.get_axes().transData.transform(xy)
transData(xy) == <<PixPerUnit * xy[1], PixPerUnit * xy[2]>>

\* transData.inverted().transform(pixels)
pix2dat(pixels) ==
    << [num |-> pixels[1], den |-> PixPerUnit],
       [num |-> pixels[2], den |-> PixPerUnit] >>

\* v > q and v < q for a data value v and a fraction q
Greater(v, q) == v * q.den > q.num
Less(v, q) == v * q.den < q.num

\* ref_artist.get_transform().inverted().get_matrix(): [0,0] and [1,1]
drag_trans_mat == <<PtPerPix, PtPerPix>>

\* The text box covers BoxW + 1 by BoxH + 1 pixels from the pixel its offset
\* puts it at.
BoxW == 0
BoxH == 0

BoxOrigin(r) ==
    LET p == transData(r.xy)
    IN  <<p[1] + (r.position[1] \div PtPerPix),
          p[2] + (r.position[2] \div PtPerPix)>>

\* ref_artist.get_bbox_patch().contains(event)[0]
bbox_contains(r, x, y) ==
    LET o == BoxOrigin(r)
    IN  /\ o[1] <= x /\ x <= o[1] + BoxW
        /\ o[2] <= y /\ y <= o[2] + BoxH

-----------------------------------------------------------------------------
(* Text of an annotation.  A formatter is [kind, of]: the default one is   *)
(* the bound method _annotate_line_str of picker `of`, a custom one is a   *)
(* function of the caller.  Both build the text from the line's label, the *)
(* index and the data point.                                               *)

NoFormatter == [kind |-> "None", of |-> NoPicker]

get_label(line) == line

\* AnnotationPicker._annotate_line_str, and a custom function like it
CallFormatter(formatter, line, index) ==
    <<formatter.kind, get_label(line), index,
      DataPoint(line, index)[1], DataPoint(line, index)[2]>>

\* a text the caller of annotate gives
ManualText == <<"A manual annotation">>

-----------------------------------------------------------------------------
(* The event being dispatched.  A button press or a scroll makes the       *)
(* canvas pick: it asks the picker of every pickable line of the figure    *)
(* (lines) and then the picker of every annotation of the figure (todo),   *)
(* and delivers a pick event for each artist that reports a hit before it  *)
(* asks the next one.  A pick event calls the module's _on_pick_event      *)
(* first (it was connected first) and then the on_pick of the annotations; *)
(* an on_pick acts only for the annotation's own artist.  picked is the    *)
(* annotation whose pick event is being delivered and cb the callback that *)
(* is next for it.  For a release or a motion, todo is the callbacks that  *)
(* were connected to the event when its delivery started.                  *)

Idle == [kind |-> "idle", canvas |-> "None", x |-> 0, y |-> 0, button |-> 0,
         key |-> "None", lines |-> <<>>, todo |-> <<>>, picked |-> 0,
         cb |-> "none"]

\* the dispatch after the callback at the head of todo has returned
AfterCallback(d) ==
    IF Len(d.todo) <= 1
    THEN Idle
    ELSE [d EXCEPT !.todo = Tail(@), !.picked = 0, !.cb = "none"]

\* the dispatch after the pick event of the line at the head of lines
AfterLine(d) ==
    IF Len(d.lines) <= 1 /\ d.todo = <<>>
    THEN Idle
    ELSE [d EXCEPT !.lines = Tail(@)]

Ids == 1.._counter

\* the ids in S in ascending order: the order the objects were created in
RECURSIVE SortedSeq(_)
SortedSeq(S) ==
    IF S = {} THEN <<>>
    ELSE LET m == CHOOSE i \in S : \A j \in S : i <= j
         IN  <<m>> \o SortedSeq(S \ {m})

-----------------------------------------------------------------------------
(* DraggableAnnotationLine2D                                               *)

Abs(n) == IF n < 0 THEN 0 - n ELSE n

\* threading.Lock.acquire(False): the lock afterwards, and what it returned
Lock_acquire(held) == [lock |-> TRUE, ok |-> ~held]

\* threading.Lock.release(): releasing an unlocked lock raises RuntimeError
Lock_release(held) ==
    [lock |-> FALSE, raised |-> IF held THEN "none" ELSE "RuntimeError"]

\* __init__, on the annotation artist that ax.annotate(text, xy, **kwargs) made
DraggableAnnotationLine2D(text, xytext, line, index, formatter) ==
    [figure |-> get_figure(line),
     line |-> line,
     index |-> index,
     formatter |-> formatter,
     text |-> IF formatter # NoFormatter
              THEN CallFormatter(formatter, line, index)
              ELSE text,
     xy |-> DataPoint(line, index),
     position |-> xytext,
     present |-> TRUE,       \* the artist is in its axes
     cids |-> TRUE,          \* on_pick and on_release are connected
     c1 |-> FALSE,           \* on_motion is connected
     got_artist |-> FALSE,
     button |-> 0,           \* 0: no button recorded yet
     mouse |-> NoPair,
     drag_start_text_points |-> NoPair,
     drag_start_pixels |-> NoPair]

\* __init__ with line, index and formatter left at None, on an annotation
\* artist of `figure` that the script made itself
Unbound(figure, text, xy, xytext) ==
    [DraggableAnnotationLine2D(text, xytext, "line1", 0, NoFormatter)
        EXCEPT !.figure = figure, !.line = None, !.index = NoInt, !.xy = xy]

\* artist_picker taking every button for a good action
GoodAction_any(r, button) == TRUE

\* the condition of artist_picker on the button and on line and index
GoodAction(r, button) ==
    \/ button \in {1, 3}
    \/ button = 2 /\ r.line # None /\ r.index # NoInt

save_offset(r) ==
    IF r.button = 1
    THEN [r EXCEPT !.drag_start_text_points = r.position]
    ELSE IF r.button = 2
    THEN [r EXCEPT !.drag_start_pixels = transData(r.xy)]
    ELSE r

\* MoveLeft with its comparison turned around
MoveLeft_turned(xydata, index, new_x) ==
    IF index > 0 /\ Less(xydata[index][1], new_x) THEN index - 1 ELSE index

\* the first loop of update_offset
RECURSIVE MoveLeft(_, _, _)
MoveLeft(xydata, index, new_x) ==
    IF index > 0 /\ Greater(xydata[index][1], new_x)
    THEN MoveLeft(xydata, index - 1, new_x)
    ELSE index

\* the second loop of update_offset
RECURSIVE MoveRight(_, _, _)
MoveRight(xydata, index, new_x) ==
    IF index < Len(xydata) - 1 /\ Less(xydata[index + 2][1], new_x)
    THEN MoveRight(xydata, index + 1, new_x)
    ELSE index

\* new_data_xy of update_offset
new_data_xy(r, dx, dy) ==
    pix2dat(<<r.drag_start_pixels[1] + dx, r.drag_start_pixels[2] + dy>>)

\* the index update_offset ends its loops with
SlideIndex(r, dx, dy) ==
    LET xydata == get_xydata(r.line)
        new_x == new_data_xy(r, dx, dy)[1]
    IN  MoveRight(xydata, MoveLeft(xydata, r.index, new_x), new_x)

\* update_offset setting the text of a moved index with the formatter of the
\* first picker, whatever the annotation's own formatter
update_offset_formats(r, dx, dy) ==
    IF r.button = 1
    THEN [r EXCEPT !.position =
             <<r.drag_start_text_points[1] + dx * drag_trans_mat[1],
               r.drag_start_text_points[2] + dy * drag_trans_mat[2]>>]
    ELSE IF r.button = 2
    THEN LET index == SlideIndex(r, dx, dy)
         IN  IF index # r.index
             THEN [r EXCEPT !.xy = DataPoint(r.line, index),
                            !.index = index,
                            !.text = CallFormatter([kind |-> "default", of |-> 1],
                                                   r.line, index)]
             ELSE r
    ELSE r

\* update_offset moving the index and leaving the anchor and the text behind
update_offset_index_only(r, dx, dy) ==
    IF r.button = 1
    THEN [r EXCEPT !.position =
             <<r.drag_start_text_points[1] + dx * drag_trans_mat[1],
               r.drag_start_text_points[2] + dy * drag_trans_mat[2]>>]
    ELSE IF r.button = 2
    THEN [r EXCEPT !.index = SlideIndex(r, dx, dy)]
    ELSE r

\* update_offset without the scaling of pixels to points
update_offset_unscaled(r, dx, dy) ==
    IF r.button = 1
    THEN [r EXCEPT !.position = <<r.drag_start_text_points[1] + dx,
                                  r.drag_start_text_points[2] + dy>>]
    ELSE r

update_offset(r, dx, dy) ==
    IF r.button = 1
    THEN [r EXCEPT !.position =
             <<r.drag_start_text_points[1] + dx * drag_trans_mat[1],
               r.drag_start_text_points[2] + dy * drag_trans_mat[2]>>]
    ELSE IF r.button = 2
    THEN LET index == SlideIndex(r, dx, dy)
         IN  IF index # r.index
             THEN [r EXCEPT !.xy = DataPoint(r.line, index),
                            !.index = index,
                            !.text = IF r.formatter # NoFormatter
                                     THEN CallFormatter(r.formatter, r.line, index)
                                     ELSE @]
             ELSE r
    ELSE r

\* what print_annotation prints
print_annotation(r) == <<get_label(r.line), r.index, r.text>>

\* remove: disconnect the callbacks, delete the artist
remove(r) ==
    [r EXCEPT !.cids = FALSE, !.present = FALSE, !.got_artist = FALSE]

\* whether finalize_offset prints
FinalizePrints(r) == r.button = 2 /\ r.formatter # NoFormatter

\* finalize_offset without its branch for button 3
finalize_offset_keeps(r) == r

finalize_offset(r) ==
    IF FinalizePrints(r) THEN r
    ELSE IF r.button = 3 THEN remove(r)
    ELSE r

\* the toolkit's on_release, which DraggableAnnotationLine2D.on_release calls
\* first: it ends the drag of an annotation that is being dragged
Base_on_release(r) ==
    IF r.got_artist
    THEN [finalize_offset(r) EXCEPT !.got_artist = FALSE, !.c1 = FALSE]
    ELSE r

-----------------------------------------------------------------------------
(* AnnotationPicker and the module functions                               *)

LinesOf(artist) ==
    IF artist \in Lines THEN {artist}
    ELSE IF artist \in AxesSet THEN {l \in Lines : get_axes(l) = artist}
    ELSE IF artist \in Figures THEN {l \in Lines : get_figure(l) = artist}
    ELSE {}

\* enable_callbacks: the canvases that carry the callbacks afterwards
enable_callbacks(cb, artist) == cb \cup {get_figure(artist)}

\* the loop of apply, attaching the instance to the lines of the artist too
RECURSIVE ApplyLoop_children(_, _, _, _)
ApplyLoop_children(st, P, tolerance, artists) ==
    IF artists = <<>> THEN st
    ELSE LET artist == Head(artists)
             lines == {l \in LinesOf(artist) : st.picker[l] = NoInt}
             st1 == [st EXCEPT
                       !.attr = [a \in Artists |->
                                   IF a = artist \/ a \in LinesOf(artist)
                                   THEN P ELSE @[a]],
                       !.picker = [l \in Lines |->
                                     IF l \in lines THEN tolerance ELSE @[l]]]
         IN  ApplyLoop_children(st1, P, tolerance, Tail(artists))

\* the loop of apply over the artists, on st = [attr, picker, cb]
RECURSIVE ApplyLoop(_, _, _, _)
ApplyLoop(st, P, tolerance, artists) ==
    IF artists = <<>> THEN st
    ELSE LET artist == Head(artists)
             lines == {l \in LinesOf(artist) : st.picker[l] = NoInt}
             st1 == IF artist = None THEN st
                    ELSE [st EXCEPT
                            !.attr = [@ EXCEPT ![artist] = P],
                            !.picker = [l \in Lines |->
                                          IF l \in lines THEN tolerance ELSE @[l]]]
         IN  ApplyLoop(st1, P, tolerance, Tail(artists))

\* apply: the artists are a sequence; the callbacks are enabled for the
\* canvas of the last one only, after the loop
apply(st, P, tolerance, artists) ==
    LET st1 == ApplyLoop(st, P, tolerance, artists)
    IN  [st1 EXCEPT !.cb = enable_callbacks(@, artists[Len(artists)])]

\* AnnotationPicker.__init__ without artists: the object
AnnotationPicker(P, tolerance, formatter, button, key, xytext) ==
    [tolerance |-> tolerance,
     button |-> button,
     key |-> key,
     formatter |-> IF formatter = NoFormatter
                   THEN [kind |-> "default", of |-> P]
                   ELSE formatter,
     xytext |-> xytext]

\* artist.get_axes() where it has the attribute looked for: a line's axes
\* and an axes itself are axes; a figure's get_axes() is a list
AxesOf(artist) ==
    IF artist \in Lines THEN get_axes(artist)
    ELSE IF artist \in AxesSet THEN artist
    ELSE None

\* artist.get_figure(): a figure has none
FigureOf(artist) ==
    IF artist \in Lines \cup AxesSet THEN get_figure(artist) ELSE None

hasattr(at, artist) == artist # None /\ at[artist] # NoPicker

\* _find_annotations_instance falling back on the picker made last
_find_annotations_instance_last(at, artist) ==
    IF hasattr(at, artist) THEN at[artist]
    ELSE IF hasattr(at, AxesOf(artist)) THEN at[AxesOf(artist)]
    ELSE IF hasattr(at, FigureOf(artist)) THEN at[FigureOf(artist)]
    ELSE Len(pickers)

\* _find_annotations_instance for a line, an axes or a figure
_find_annotations_instance(at, artist) ==
    IF hasattr(at, artist) THEN at[artist]
    ELSE IF hasattr(at, AxesOf(artist)) THEN at[AxesOf(artist)]
    ELSE IF hasattr(at, FigureOf(artist)) THEN at[FigureOf(artist)]
    ELSE NoPicker

\* _find_annotations_instance for the artist of an annotation of a line: the
\* artist has no attribute of its own, its axes and figure are the line's
FindForAnnotation(at, line) ==
    IF hasattr(at, get_axes(line)) THEN at[get_axes(line)]
    ELSE IF hasattr(at, get_figure(line)) THEN at[get_figure(line)]
    ELSE NoPicker

\* _find_annotations_instance for the artist of an annotation r
FindForArtist(at, r) ==
    IF r.line # None THEN FindForAnnotation(at, r.line)
    ELSE LET ax == CHOOSE x \in AxesSet : get_figure(x) = r.figure
         IN  IF hasattr(at, ax) THEN at[ax]
             ELSE IF hasattr(at, r.figure) THEN at[r.figure]
             ELSE NoPicker

\* line.contains(mouseevent): the indices of the data points within the
\* line's picker tolerance of the cursor, ascending
RECURSIVE HitIndices(_, _, _, _, _)
HitIndices(line, i, x, y, tolerance) ==
    IF i >= NumPoints(line) THEN <<>>
    ELSE LET p == transData(DataPoint(line, i))
             hit == (p[1] - x) * (p[1] - x) + (p[2] - y) * (p[2] - y)
                        <= tolerance * tolerance
         IN  (IF hit THEN <<i>> ELSE <<>>)
                 \o HitIndices(line, i + 1, x, y, tolerance)

line_contains(line, x, y, tolerance) == HitIndices(line, 0, x, y, tolerance)

\* AnnotationPicker.annotate: the object it makes and returns
AnnotationPicker_annotate(pk, line, index, text) ==
    LET formatter == IF text = NoText THEN pk.formatter ELSE NoFormatter
    IN  DraggableAnnotationLine2D(text, pk.xytext, line, index, formatter)

\* the objects after DraggableAnnotationLine2D.__init__ has counted obj
Created(obj) ==
    /\ _counter' = _counter + 1
    /\ annot' = [i \in 1..(_counter + 1) |->
                    IF i <= _counter THEN annot[i] ELSE obj]

-----------------------------------------------------------------------------
(* Calls of the API.  The caller's code runs between two events.           *)

NoReturn == [call |-> "none", obj |-> 0]

\* a callback that prints nothing and raises nothing
Quiet == error' = "none" /\ stdout' = <<>> /\ ret' = NoReturn

\* obj = picker.annotate(line, index, text)
CallAnnotate(P, line, index, text) ==
    /\ disp = Idle
    /\ P \in DOMAIN pickers
    /\ Created(AnnotationPicker_annotate(pickers[P], line, index, text))
    /\ ret' = [call |-> "AnnotationPicker.annotate", obj |-> _counter + 1]
    /\ error' = "none"
    /\ stdout' = <<>>
    /\ UNCHANGED <<_drag_lock, disp, pickvars>>

\* obj.remove() on an annotation that was not removed yet
Remove(a) ==
    /\ disp = Idle
    /\ a \in Ids
    /\ annot[a].present
    /\ annot' = [annot EXCEPT ![a] = remove(@)]
    /\ ret' = [call |-> "remove", obj |-> 0]
    /\ error' = "none"
    /\ stdout' = <<>>
    /\ UNCHANGED <<_counter, _drag_lock, disp, pickvars>>

-----------------------------------------------------------------------------
(* Mouse events, and the callbacks they reach.                             *)

\* The canvas gets a press of a mouse button, or a scroll (button 4 stands
\* for the wheel's 'up' and 'down'), at pixel (x, y) with `key` held.
button_press_event(c, x, y, button, key) ==
    /\ disp = Idle
    /\ LET lines == {l \in Lines :
                        /\ get_figure(l) = c
                        /\ picker[l] # NoInt
                        /\ line_contains(l, x, y, picker[l]) # <<>>}
           todo == {a \in Ids : annot[a].present /\ annot[a].figure = c}
       IN  /\ (lines # {} \/ todo # {})
           /\ disp' = [Idle EXCEPT !.kind = "press", !.canvas = c, !.x = x,
                                   !.y = y, !.button = button, !.key = key,
                                   !.lines = IF lines = {} THEN <<>>
                                             ELSE <<CHOOSE l \in lines : TRUE>>,
                                   !.todo = SortedSeq(todo)]
    /\ Quiet
    /\ UNCHANGED <<dragvars, pickvars>>

\* the middle one of the indices of a pick event
MiddleIndex_first(ind) == ind[1]

MiddleIndex(ind) == ind[(Len(ind) \div 2) + 1]

\* AnnotationPicker._onpick for the pick event of `artist`, a line or the
\* artist of an annotation ("Annotation")
_onpick(P, artist, ind) ==
    IF /\ disp.button = pickers[P].button
       /\ disp.key = pickers[P].key
       /\ artist \in Lines
    THEN /\ Created(AnnotationPicker_annotate(pickers[P], artist,
                                               MiddleIndex(ind), NoText))
         /\ _event' = [artist |-> artist, ind |-> ind]
    ELSE UNCHANGED <<annot, _counter, _event>>

\* _on_pick_event: the pick event of a line, or of an annotation's artist
_on_pick_event ==
    /\ disp.kind = "press"
    /\ disp.canvas \in cb_canvas
    /\ \/ /\ disp.lines # <<>>
          /\ LET line == Head(disp.lines)
                 ind == line_contains(line, disp.x, disp.y, picker[line])
                 annotations_instance == _find_annotations_instance(attr, line)
             IN  IF annotations_instance # NoPicker
                 THEN _onpick(annotations_instance, line, ind)
                 ELSE UNCHANGED <<annot, _counter, _event>>
          /\ disp' = AfterLine(disp)
       \/ /\ disp.lines = <<>>
          /\ disp.cb = "module"
          /\ LET annotations_instance ==
                     FindForArtist(attr, annot[disp.picked])
             IN  IF annotations_instance # NoPicker
                 THEN _onpick(annotations_instance, "Annotation", <<>>)
                 ELSE UNCHANGED <<annot, _counter, _event>>
          /\ disp' = [disp EXCEPT !.cb = "on_pick"]
    /\ Quiet
    /\ UNCHANGED <<_drag_lock, pickers, attr, picker, cb_canvas>>

\* the pick event of a line on a canvas that enable_callbacks has not
\* connected _on_pick_event to: nothing is called
pick_event_unconnected ==
    /\ disp.kind = "press"
    /\ disp.canvas \notin cb_canvas
    /\ disp.lines # <<>>
    /\ disp' = AfterLine(disp)
    /\ Quiet
    /\ UNCHANGED <<dragvars, pickvars>>

\* the canvas asks the picker of annotation a
artist_picker(a) ==
    /\ disp.kind = "press"
    /\ disp.lines = <<>>
    /\ disp.picked = 0
    /\ disp.todo # <<>>
    /\ a = Head(disp.todo)
    /\ LET r == annot[a]
           acq == Lock_acquire(_drag_lock)
       IN  IF GoodAction(r, disp.button) /\ bbox_contains(r, disp.x, disp.y)
           THEN /\ _drag_lock' = acq.lock
                /\ IF acq.ok
                   THEN /\ annot' = [annot EXCEPT ![a].button = disp.button]
                        /\ disp' = [disp EXCEPT
                                      !.picked = a,
                                      !.cb = IF disp.canvas \in cb_canvas
                                             THEN "module" ELSE "on_pick"]
                   ELSE /\ UNCHANGED annot
                        /\ disp' = AfterCallback(disp)
           ELSE /\ UNCHANGED <<annot, _drag_lock>>
                /\ disp' = AfterCallback(disp)
    /\ Quiet
    /\ UNCHANGED <<_counter, pickvars>>

\* the toolkit's on_pick for the annotation's own artist; it calls save_offset
on_pick(a) ==
    /\ disp.kind = "press"
    /\ disp.picked = a
    /\ disp.cb = "on_pick"
    /\ annot' = [annot EXCEPT ![a] =
                    save_offset([@ EXCEPT !.mouse = <<disp.x, disp.y>>,
                                          !.got_artist = TRUE,
                                          !.c1 = TRUE])]
    /\ disp' = AfterCallback(disp)
    /\ Quiet
    /\ UNCHANGED <<_counter, _drag_lock, pickvars>>

\* The canvas gets a motion of the mouse to pixel (x, y).
motion_notify_event(c, x, y) ==
    /\ disp = Idle
    /\ LET todo == {a \in Ids : annot[a].c1 /\ annot[a].figure = c}
       IN  /\ todo # {}
           /\ disp' = [Idle EXCEPT !.kind = "motion", !.canvas = c, !.x = x,
                                   !.y = y, !.todo = SortedSeq(todo)]
    /\ Quiet
    /\ UNCHANGED <<dragvars, pickvars>>

\* the toolkit's on_motion; it calls update_offset
on_motion(a) ==
    /\ disp.kind = "motion"
    /\ a = Head(disp.todo)
    /\ annot' = [annot EXCEPT ![a] =
                    IF @.got_artist
                    THEN update_offset(@, disp.x - @.mouse[1], disp.y - @.mouse[2])
                    ELSE @]
    /\ disp' = AfterCallback(disp)
    /\ Quiet
    /\ UNCHANGED <<_counter, _drag_lock, pickvars>>

\* The canvas gets the release of a mouse button.
button_release_event(c) ==
    /\ disp = Idle
    /\ LET todo == {a \in Ids : annot[a].cids /\ annot[a].figure = c}
       IN  /\ todo # {}
           /\ disp' = [Idle EXCEPT !.kind = "release", !.canvas = c,
                                   !.todo = SortedSeq(todo)]
    /\ Quiet
    /\ UNCHANGED <<dragvars, pickvars>>

\* the release of the lock without the try statement around it
ReleaseHandler_none(raised) == raised

\* what leaves the try statement of on_release when release() raised `raised`
ReleaseHandler(raised) == IF raised = "RuntimeError" THEN "none" ELSE raised

on_release(a) ==
    /\ disp.kind = "release"
    /\ a = Head(disp.todo)
    /\ annot' = [annot EXCEPT ![a] = Base_on_release(@)]
    /\ stdout' = IF annot[a].got_artist /\ FinalizePrints(annot[a])
                 THEN <<print_annotation(annot[a])>>
                 ELSE <<>>
    /\ LET rel == Lock_release(_drag_lock)
       IN  /\ _drag_lock' = rel.lock
           /\ error' = ReleaseHandler(rel.raised)
    /\ ret' = NoReturn
    /\ disp' = AfterCallback(disp)
    /\ UNCHANGED <<_counter, pickvars>>

-----------------------------------------------------------------------------
(* The specifications.  In all of them a script has made one               *)
(* AnnotationPicker for the first figure, with a text offset of its own    *)
(* and a tolerance of 0, and applied it to the second figure; the mouse is *)
(* used with no key held.                                                  *)

CursorX == 1..4
CursorY == 1..2
Buttons == {1, 2, 3, 4}

Pristine ==
    [attr |-> [a \in Artists |-> NoPicker],
     picker |-> [l \in Lines |-> NoInt],
     cb |-> {}]

ScriptPicker == AnnotationPicker(1, 0, NoFormatter, 1, "control", <<2, 2>>)

\* the state after the script has made the annotations objs
ScriptInit(objs) ==
    /\ annot \in objs
    /\ _counter = Len(annot)
    /\ _drag_lock = FALSE
    /\ disp = Idle
    /\ stdout = <<>>
    /\ error = "none"
    /\ pickers = <<ScriptPicker>>
    /\ LET st == apply(apply(Pristine, 1, ScriptPicker.tolerance, <<"fig1">>),
                       1, ScriptPicker.tolerance, <<"fig2">>)
       IN  /\ attr = st.attr
           /\ picker = st.picker
           /\ cb_canvas = st.cb
    /\ ret = NoReturn
    /\ _event = [artist |-> None, ind |-> <<>>]

(* Spec: the drag lock.  The script has made two annotations: both on the  *)
(* middle point of line1 (the two boxes overlap), or on two points of      *)
(* line1 next to each other, or one on line1 and one on line2, in the      *)
(* other figure, or one that is bound to no line and one on line1 (the     *)
(* boxes overlap).  The mouse clicks on both canvases without moving in      *)
(* between, and the script may remove an annotation between two events.    *)

TwoAnnotations ==
    { << AnnotationPicker_annotate(ScriptPicker, "line1", 1, NoText),
         AnnotationPicker_annotate(ScriptPicker, "line1", 1, ManualText) >>,
      << AnnotationPicker_annotate(ScriptPicker, "line1", 0, ManualText),
         AnnotationPicker_annotate(ScriptPicker, "line1", 1, NoText) >>,
      << AnnotationPicker_annotate(ScriptPicker, "line1", 1, NoText),
         AnnotationPicker_annotate(ScriptPicker, "line2", 0, NoText) >>,
      << Unbound("fig1", ManualText, <<1, 0>>, <<2, 2>>),
         AnnotationPicker_annotate(ScriptPicker, "line1", 1, NoText) >> }

Init == ScriptInit(TwoAnnotations)

Next ==
    \/ \E a \in Ids : Remove(a)
    \/ \E c \in Figures, x \in CursorX, y \in CursorY, b \in Buttons :
          button_press_event(c, x, y, b, "None")
    \/ _on_pick_event
    \/ \E a \in Ids : artist_picker(a)
    \/ \E a \in Ids : on_pick(a)
    \/ \E c \in Figures : button_release_event(c)
    \/ \E a \in Ids : on_release(a)

Spec == Init /\ [][Next]_vars

(* SpecDrag: the drag of one annotation.  The script has made one          *)
(* annotation, with the formatter's text or with a text of its own, on     *)
(* line1 or on line2, whose x data do not ascend; the mouse clicks and     *)
(* moves on both canvases.                                                 *)

OneAnnotation ==
    { << AnnotationPicker_annotate(ScriptPicker, "line1", 1, NoText) >>,
      << AnnotationPicker_annotate(ScriptPicker, "line1", 1, ManualText) >>,
      << AnnotationPicker_annotate(ScriptPicker, "line2", 0, NoText) >> }

InitDrag == ScriptInit(OneAnnotation)

NextDrag ==
    \/ \E a \in Ids : Remove(a)
    \/ \E c \in Figures, x \in CursorX, y \in CursorY, b \in Buttons :
          button_press_event(c, x, y, b, "None")
    \/ _on_pick_event
    \/ \E a \in Ids : artist_picker(a)
    \/ \E a \in Ids : on_pick(a)
    \/ \E c \in Figures, x \in CursorX, y \in CursorY : motion_notify_event(c, x, y)
    \/ \E a \in Ids : on_motion(a)
    \/ \E c \in Figures : button_release_event(c)
    \/ \E a \in Ids : on_release(a)

SpecDrag == InitDrag /\ [][NextDrag]_vars

-----------------------------------------------------------------------------
(* SpecPick: controllers and clicks.  Nothing has been set up.  The script *)
(* makes AnnotationPicker objects, applies them to line1 and to its axes,  *)
(* clears them, and makes annotations with the module's annotate and with  *)
(* the pickers' annotate; the mouse clicks on the first canvas, between    *)
(* two points of line1 and inside a text box, with or without the control  *)
(* key, and does not move.                                                 *)

DefaultTolerance == 5
DefaultOffset == 20

\* the arguments the script makes its pickers with: the first, the third
\* ... with a formatter of the script's, the right button and no key
PickerConfig(P) ==
    IF P % 2 = 1
    THEN [tolerance |-> DefaultTolerance,
          formatter |-> [kind |-> "custom", of |-> NoPicker], button |-> 3,
          key |-> "None", xytext |-> <<2, 2>>]
    ELSE [tolerance |-> 1, formatter |-> NoFormatter, button |-> 1,
          key |-> "control", xytext |-> <<2, 2>>]

\* AnnotationPicker(line): all arguments at their defaults
DefaultPicker(P) ==
    AnnotationPicker(P, DefaultTolerance, NoFormatter, 1, "control",
                     <<DefaultOffset, DefaultOffset>>)

PickArtists == {"line1", "ax1"}
PickCursor == {<<3, 0>>, <<3, 1>>}
PickButtons == {1, 3}
PickKeys == {"None", "control"}
PickIndices == {1}

Current == [attr |-> attr, picker |-> picker, cb |-> cb_canvas]

Becomes(st) == attr' = st.attr /\ picker' = st.picker /\ cb_canvas' = st.cb

\* P = AnnotationPicker(artists, ...); artists = <<>> stands for None
NewPicker(artists) ==
    /\ disp = Idle
    /\ LET P == Len(pickers) + 1
           cfg == PickerConfig(P)
           pk == AnnotationPicker(P, cfg.tolerance, cfg.formatter, cfg.button,
                                  cfg.key, cfg.xytext)
       IN  /\ pickers' = Append(pickers, pk)
           /\ Becomes(IF artists = <<>> THEN Current
                      ELSE apply(Current, P, pk.tolerance, artists))
           /\ ret' = NoReturn
    /\ error' = "none"
    /\ stdout' = <<>>
    /\ UNCHANGED <<dragvars, disp, _event>>

\* P.apply(artists)
CallApply(P, artists) ==
    /\ disp = Idle
    /\ P \in DOMAIN pickers
    /\ artists # <<>>
    /\ Becomes(apply(Current, P, pickers[P].tolerance, artists))
    /\ ret' = NoReturn
    /\ error' = "none"
    /\ stdout' = <<>>
    /\ UNCHANGED <<dragvars, disp, pickers, _event>>

\* _clear_annotations(artist): the attribute of the artist is deleted; the
\* children are never reached, no artist has an attribute 'get chlldren'
_clear_annotations(artist) ==
    /\ disp = Idle
    /\ attr' = [attr EXCEPT ![artist] = NoPicker]
    /\ ret' = NoReturn
    /\ error' = "none"
    /\ stdout' = <<"All annotations in artist and children deleted.">>
    /\ UNCHANGED <<dragvars, disp, pickers, picker, cb_canvas, _event>>

\* annotate(line, index, text), the function of the module
annotate(line, index, text) ==
    /\ disp = Idle
    /\ LET found == _find_annotations_instance(attr, line)
           P == IF found = NoPicker THEN Len(pickers) + 1 ELSE found
           pk == IF found = NoPicker THEN DefaultPicker(P) ELSE pickers[P]
           st == IF found = NoPicker
                 THEN apply(Current, P, pk.tolerance, <<line>>)
                 ELSE Current
       IN  /\ pickers' = IF found = NoPicker THEN Append(pickers, pk)
                         ELSE pickers
           /\ Becomes([st EXCEPT !.attr[line] =
                          IF found = NoPicker THEN P ELSE @])
           /\ Created(AnnotationPicker_annotate(pk, line, index, text))
    \* the function ends without a return statement
    /\ ret' = [call |-> "annotate", obj |-> 0]
    /\ error' = "none"
    /\ stdout' = <<>>
    /\ UNCHANGED <<_drag_lock, disp, _event>>

InitPick ==
    /\ annot = <<>>
    /\ _counter = 0
    /\ _drag_lock = FALSE
    /\ disp = Idle
    /\ stdout = <<>>
    /\ error = "none"
    /\ pickers = <<>>
    /\ attr = Pristine.attr
    /\ picker = Pristine.picker
    /\ cb_canvas = Pristine.cb
    /\ ret = NoReturn
    /\ _event = [artist |-> None, ind |-> <<>>]

\* whether a press with this button and key on canvas c at (x, y) makes an
\* annotation
Creates(c, x, y, button, key) ==
    \E l \in Lines :
        /\ get_figure(l) = c
        /\ c \in cb_canvas
        /\ picker[l] # NoInt
        /\ line_contains(l, x, y, picker[l]) # <<>>
        /\ LET P == _find_annotations_instance(attr, l)
           IN  P # NoPicker /\ pickers[P].button = button /\ pickers[P].key = key

NextPick ==
    \/ \E a \in (PickArtists \cup {None}) :
          /\ Len(pickers) < MaxPickers
          /\ NewPicker(IF a = None THEN <<>> ELSE <<a>>)
    \/ \E P \in DOMAIN pickers, a \in PickArtists : CallApply(P, <<a>>)
    \/ \E a \in PickArtists : _clear_annotations(a)
    \/ \E index \in PickIndices, text \in {NoText, ManualText} :
          /\ _counter < MaxAnn
          /\ Len(pickers) < MaxPickers
                \/ _find_annotations_instance(attr, "line1") # NoPicker
          /\ annotate("line1", index, text)
    \/ \E P \in DOMAIN pickers, index \in PickIndices :
          /\ _counter < MaxAnn
          /\ CallAnnotate(P, "line1", index, NoText)
    \/ \E c \in PickCursor, b \in PickButtons, k \in PickKeys :
          /\ _counter < MaxAnn \/ ~Creates("fig1", c[1], c[2], b, k)
          /\ button_press_event("fig1", c[1], c[2], b, k)
    \/ _on_pick_event
    \/ \E a \in Ids : artist_picker(a)
    \/ \E a \in Ids : on_pick(a)
    \/ button_release_event("fig1")
    \/ \E a \in Ids : on_release(a)

SpecPick == InitPick /\ [][NextPick]_vars

-----------------------------------------------------------------------------
(* SpecApply: controllers over two figures.  Nothing has been set up.  The *)
(* script makes AnnotationPicker objects and applies them to one artist of *)
(* the first figure or to the lines of both figures at once; the mouse     *)
(* clicks on the middle of the lines of both canvases.  No click is inside *)
(* a text box.                                                             *)

ApplyArgs == {<<"line1">>, <<"ax1">>, <<"fig1">>, <<"line1", "line2">>}
ApplyCursor == <<2, 0>>

NextApply ==
    \/ \E artists \in (ApplyArgs \cup {<<>>}) :
          /\ Len(pickers) < MaxPickers
          /\ NewPicker(artists)
    \/ \E P \in DOMAIN pickers, artists \in ApplyArgs : CallApply(P, artists)
    \/ \E c \in Figures, b \in PickButtons, k \in PickKeys :
          /\ _counter < MaxAnn \/ ~Creates(c, ApplyCursor[1], ApplyCursor[2], b, k)
          /\ button_press_event(c, ApplyCursor[1], ApplyCursor[2], b, k)
    \/ _on_pick_event
    \/ pick_event_unconnected
    \/ \E a \in Ids : artist_picker(a)

SpecApply == InitPick /\ [][NextApply]_vars

-----------------------------------------------------------------------------
(* The drag lock                                                           *)

Dragged == {a \in Ids : annot[a].got_artist}

\* C1: in every reachable state at most one annotation is being dragged
\* (got_artist), whatever the order of the press and release callbacks and
\* whichever canvases the annotations are on.
C1_MutualExclusion == Cardinality(Dragged) <= 1

\* C2: the drag lock is never left held for ever: whenever it is held, the
\* on_release of some annotation is still connected to free it, also after
\* the annotation that holds it was removed during its drag.
C2_LockCanBeReleased ==
    _drag_lock => \E a \in Ids : annot[a].cids

-----------------------------------------------------------------------------
(* Dragging one annotation                                                 *)

\* the annotation's data point, text and existence
Bound(r) == <<r.index, r.xy, r.text, r.present>>

\* C3: during a drag picked with button 1, an update_offset (on_motion)
\* puts the text box at its start position plus the scaled (dx, dy), the
\* release leaves it there, and neither changes the annotation's index,
\* anchor xy, text or existence.
C3_LeftDragMovesTextOnly ==
    [][\A a \in Ids :
          annot[a].got_artist /\ annot[a].button = 1 =>
             /\ on_motion(a) =>
                   /\ Bound(annot'[a]) = Bound(annot[a])
                   /\ annot'[a].position =
                         <<annot[a].drag_start_text_points[1]
                              + (disp.x - annot[a].mouse[1]) * PtPerPix,
                           annot[a].drag_start_text_points[2]
                              + (disp.y - annot[a].mouse[2]) * PtPerPix>>
                   /\ bbox_contains(annot'[a], disp.x, disp.y)
             /\ on_release(a) =>
                   /\ Bound(annot'[a]) = Bound(annot[a])
                   /\ annot'[a].position = annot[a].position]_vars

\* a left drag has moved the box away from where it started, in x and in y
C3_Witness ==
    \E a \in Ids :
        /\ annot[a].got_artist
        /\ annot[a].button = 1
        /\ annot[a].position[1] # annot[a].drag_start_text_points[1]
        /\ annot[a].position[2] # annot[a].drag_start_text_points[2]

\* the x data of the line at the code's index i
XData(line, i) == DataPoint(line, i)[1]

C5_RightClickDeletes ==
    [][\A a \in Ids :
          /\ on_release(a) /\ annot[a].got_artist /\ annot[a].button = 3 =>
                /\ ~annot'[a].present
                /\ ~annot'[a].cids
                /\ ~annot'[a].c1
                /\ ~annot'[a].got_artist
                /\ ~_drag_lock'
          /\ ~annot[a].present =>
                /\ ~annot[a].got_artist
                /\ ~annot'[a].present
                /\ ~annot'[a].cids
                /\ ~annot'[a].got_artist
                /\ annot'[a].position = annot[a].position
                /\ Bound(annot'[a]) = Bound(annot[a])]_vars

\* an annotation that a right click deleted
C5_Witness ==
    \E a \in Ids :
        ~annot[a].present /\ annot[a].button = 3 /\ disp = Idle /\ ~_drag_lock
           /\ ret = NoReturn

-----------------------------------------------------------------------------
(* Releasing a lock that is not held                                       *)

-----------------------------------------------------------------------------
(* Click-to-create and the controllers                                     *)

\* the artist of the pick event _on_pick_event is about to handle is a line
LinePicked == disp.lines # <<>>

\* the line picked, or the line of the annotation picked
PickedLine ==
    IF LinePicked THEN Head(disp.lines) ELSE annot[disp.picked].line

\* the instance attached nearest to the picked artist: on the artist itself
\* (a line; an annotation's artist carries none), its axes, its figure
Nearest ==
    LET line == PickedLine
    IN  IF LinePicked /\ attr[line] # NoPicker THEN attr[line]
        ELSE IF attr[get_axes(line)] # NoPicker THEN attr[get_axes(line)]
        ELSE attr[get_figure(line)]

\* C6: _onpick makes exactly one new annotation, on the picked line at the
\* middle one of the event's indices, when the button and the key of the
\* mouse event are the picker's and the artist picked is a line; in every
\* other case it makes none.
C6_ClickToCreate ==
    [][_on_pick_event =>
         LET line == PickedLine
             P == Nearest
             ind == line_contains(line, disp.x, disp.y, picker[line])
         IN  IF /\ P # NoPicker
                /\ LinePicked
                /\ disp.button = pickers[P].button
                /\ disp.key = pickers[P].key
             THEN /\ _counter' = _counter + 1
                  /\ \A a \in Ids : annot'[a] = annot[a]
                  /\ annot'[_counter'].line = line
                  /\ annot'[_counter'].present
                  /\ \E k \in DOMAIN ind :
                        /\ k - 1 = Len(ind) \div 2
                        /\ annot'[_counter'].index = ind[k]
                        /\ annot'[_counter'].xy = DataPoint(line, ind[k])
             ELSE /\ _counter' = _counter
                  /\ annot' = annot]_vars

\* a click with the picker's button and key has made an annotation at the
\* upper middle of an even number of indices
C6_Witness ==
    /\ _counter >= 1
    /\ _event.artist = annot[_counter].line
    /\ Len(_event.ind) = 2
    /\ annot[_counter].index = _event.ind[2]
    /\ annot[_counter].present

\* C8: a pick event on an artist with no instance on the artist, its axes
\* or its figure is a no-op: no error, no annotation, no change of state.
C8_NoControllerNoOp ==
    [][_on_pick_event /\ Nearest = NoPicker =>
         /\ error' = "none"
         /\ stdout' = <<>>
         /\ UNCHANGED <<annot, _counter, _drag_lock, pickers, attr, picker,
                        cb_canvas, _event>>]_vars

\* the pick event of line1 was handled with no instance on line1, its axes
\* or its figure, and the picker of the annotations is up next
C8_Witness ==
    /\ disp.kind = "press"
    /\ disp.canvas = "fig1"
    /\ disp.lines = <<>>
    /\ disp.picked = 0
    /\ disp.todo = SortedSeq({a \in Ids : annot[a].present})
    /\ "fig1" \in cb_canvas
    /\ picker["line1"] # NoInt
    /\ line_contains("line1", disp.x, disp.y, picker["line1"]) # <<>>
    /\ attr["line1"] = NoPicker
    /\ attr["ax1"] = NoPicker
    /\ attr["fig1"] = NoPicker
    /\ \E P \in DOMAIN pickers :
          disp.button = pickers[P].button /\ disp.key = pickers[P].key

\* C10: the module's annotate returns the object of the annotation it made.
C10_AnnotateReturnsObject ==
    ret.call = "annotate" => ret.obj = _counter

\* the instance nearest to a line, an axes or a figure
NearestTo(artist) ==
    IF attr[artist] # NoPicker THEN attr[artist]
    ELSE IF artist \in Lines /\ attr[get_axes(artist)] # NoPicker
         THEN attr[get_axes(artist)]
    ELSE IF artist \notin Figures THEN attr[get_figure(artist)]
    ELSE NoPicker

\* C7: _find_annotations_instance gives the instance on the artist, else
\* the one on its axes, else the one on its figure, else none; and a pick
\* on a line that has such an instance is handled, by that instance alone.
C7_NearestController ==
    /\ [](\A artist \in Artists :
             _find_annotations_instance(attr, artist) = NearestTo(artist))
    /\ [][LinePicked /\ disp'.lines # disp.lines /\ Nearest # NoPicker =>
             IF /\ disp.button = pickers[Nearest].button
                /\ disp.key = pickers[Nearest].key
             THEN /\ _counter' = _counter + 1
                  /\ annot'[_counter'].formatter = pickers[Nearest].formatter
             ELSE _counter' = _counter]_vars

-----------------------------------------------------------------------------
(* The text and the anchor of an annotation                                *)

\* C11: an annotation made with a text of the caller's has no formatter,
\* keeps exactly that text through picks, drags with any button and
\* releases, and prints nothing on release; an annotation made without a
\* text has the text of the controller's formatter.
C11_ManualTextKept ==
    /\ [](\A a \in Ids :
             /\ annot[a].formatter = NoFormatter => annot[a].text = ManualText
             /\ annot[a].formatter # NoFormatter =>
                   /\ annot[a].formatter = pickers[1].formatter
                   /\ annot[a].text # ManualText)
    /\ [][\A a \in Ids :
             on_release(a) /\ annot[a].formatter = NoFormatter
                => stdout' = <<>>]_vars

\* an annotation with a text of the caller's was slid to another index with
\* the middle button and released
C11_Witness ==
    \E a \in Ids :
        /\ annot[a].formatter = NoFormatter
        /\ annot[a].text = ManualText
        /\ annot[a].button = 2
        /\ annot[a].index # 1
        /\ ~annot[a].got_artist
        /\ disp = Idle

\* the data point of the line of r at the index of r
PointAtIndex(r) == get_xydata(r.line)[r.index + 1]

\* C14: the anchor of an annotation bound to a line is the line's data point
\* at the annotation's index and, with a formatter, its text is
\* formatter(line, index), in every state; a middle-button update_offset
\* that leaves the index where it is changes neither.
C14_AnchorFollowsIndex ==
    /\ [](\A a \in Ids :
             annot[a].line \in Lines =>
                /\ annot[a].xy = PointAtIndex(annot[a])
                /\ annot[a].formatter # NoFormatter =>
                      annot[a].text = <<annot[a].formatter.kind, annot[a].line,
                                        annot[a].index,
                                        PointAtIndex(annot[a])[1],
                                        PointAtIndex(annot[a])[2]>>)
    /\ [][\A a \in Ids :
             /\ on_motion(a)
             /\ annot[a].got_artist
             /\ annot[a].button = 2
             /\ annot'[a].index = annot[a].index
             => annot'[a].xy = annot[a].xy /\ annot'[a].text = annot[a].text]_vars

\* the annotation of the middle point of line1, with the formatter's text,
\* has been slid to another point
C14_Witness ==
    \E a \in Ids :
        /\ annot[a].line = "line1"
        /\ annot[a].formatter # NoFormatter
        /\ annot[a].button = 2
        /\ annot[a].index # 1
        /\ annot[a].present

-----------------------------------------------------------------------------
(* artist_picker and the lock                                              *)

\* the cursor of the event being dispatched is inside the text box of r
CursorInBox(r) ==
    /\ disp.x = PixPerUnit * r.xy[1] + r.position[1] \div PtPerPix
    /\ disp.y = PixPerUnit * r.xy[2] + r.position[2] \div PtPerPix

\* C12: artist_picker reports a pick, takes the lock and records the button
\* exactly when the button is 1 or 3, or 2 with line and index assigned, the
\* cursor is inside the text box and the lock is free; in every other case
\* it reports no pick and leaves the lock and the recorded button as they are.
C12_PickerTakesLock ==
    [][\A a \in Ids :
         artist_picker(a) =>
            IF /\ \/ disp.button \in {1, 3}
                  \/ /\ disp.button = 2
                     /\ annot[a].line \in Lines
                     /\ annot[a].index \in 0..2
               /\ CursorInBox(annot[a])
               /\ ~_drag_lock
            THEN /\ _drag_lock'
                 /\ annot'[a].button = disp.button
                 /\ disp'.picked = a
            ELSE /\ _drag_lock' = _drag_lock
                 /\ annot'[a].button = annot[a].button
                 /\ disp'.picked # a]_vars

\* the picker of an annotation has just reported a pick while the picker of
\* another annotation with the cursor inside its box is still to be asked
C12_Witness ==
    /\ disp.kind = "press"
    /\ disp.picked # 0
    /\ disp.cb = "module"
    /\ _drag_lock
    /\ annot[disp.picked].button = disp.button
    /\ Len(disp.todo) = 2
    /\ CursorInBox(annot[disp.todo[2]])

\* C13: while an annotation is being dragged the lock is held; no on_release
\* of another annotation frees it before the drag has ended.  Stated between
\* two events, when no callback is running.
C13_LockHeldWhileDragging ==
    disp = Idle => \A a \in Ids : annot[a].got_artist => _drag_lock

-----------------------------------------------------------------------------
(* apply and the children of an artist                                     *)

\* the artists directly below an artist: the axes of a figure, the lines of
\* an axes
Children(artist) ==
    IF artist \in Figures THEN {ax \in AxesSet : get_figure(ax) = artist}
    ELSE IF artist \in AxesSet THEN {l \in Lines : get_axes(l) = artist}
    ELSE {}

Range(seq) == {seq[i] : i \in DOMAIN seq}

\* what C15 says of the state after P.apply(artists)
Applied(P, artists) ==
    /\ \A A \in Range(artists) : attr'[A] = P
    /\ \A x \in Artists \ Range(artists) : attr'[x] = attr[x]
    /\ \A A \in Range(artists) : \A c \in Children(A) \ Range(artists) :
          _find_annotations_instance(attr', c) =
             IF attr[c] # NoPicker THEN attr[c] ELSE P

\* C15: after P.apply(A) the instance attached to A is P and the instances
\* attached to other artists, A's children among them, are as before: a
\* child with an instance of its own resolves to it, a child without one
\* resolves to P.
C15_ApplyKeepsChildren ==
    [][/\ \A P \in DOMAIN pickers, artists \in ApplyArgs :
             CallApply(P, artists) => Applied(P, artists)
       /\ \A artists \in ApplyArgs :
             NewPicker(artists) => Applied(Len(pickers) + 1, artists)]_vars

\* an instance is attached to the axes while line1 resolves to another
\* instance of its own, the one that made the line pickable
C15_Witness ==
    /\ attr["ax1"] # NoPicker
    /\ attr["line1"] # NoPicker
    /\ attr["line1"] # attr["ax1"]
    /\ picker["line1"] = pickers[attr["line1"]].tolerance
    /\ _find_annotations_instance(attr, "line1") = attr["line1"]

=============================================================================
